---- MODULE Spec2Model ----
(***************************************************************************)
(* Model of the extraction-and-change-tracking pipeline of                 *)
(* auto-academic-info: build_record / crawl_page (app/crawler.py) and the  *)
(* SQLite store behind upsert_meeting (app/db.py).                         *)
(*                                                                         *)
(* Python values: every str is a TLA+ string, None is the reserved string  *)
(* NULL, a dict is a function whose DOMAIN is its key set.  Instants are   *)
(* natural numbers (half seconds); IsoFormat gives the text that           *)
(* datetime.isoformat() stores for them.                                   *)
(***************************************************************************)
EXTENDS Integers, Sequences, FiniteSets, TLC

VARIABLES
    meetings,         \* table meetings: sequence of rows, row i has id i
    meeting_history,  \* table meeting_history: sequence of rows, row i has id i
    clock,            \* the UTC wall clock, in half seconds
    calls,            \* number of upsert_meeting calls made so far
    lastRecord,       \* the record handed to the latest upsert_meeting call
    lastNow,          \* the 'now' the latest upsert_meeting call read
    outcome,          \* what the latest upsert_meeting call returned or raised
    recA, recB,       \* two records whose content hashes are compared
    hashA, hashB,     \* their content hashes (NULL: not computed)
    edits,            \* number of fields of recB changed so far
    wpc,              \* per worker thread: where its upsert_meeting call stands
    wrec,             \* per worker: the record of its call
    wnow,             \* per worker: the 'now' its call read
    wexisting,        \* per worker: the row its SELECT returned (NoRow: none)
    wout,             \* per worker: what its latest call returned or raised
    writer,           \* the worker whose connection holds SQLite's write lock (0: none)
    txMeetings,       \* meetings as the open write transaction sees it
    txHistory,        \* meeting_history as the open write transaction sees it
    started,          \* number of concurrent calls begun
    faults,           \* number of storage faults injected
    seen,             \* the tables as a reader's latest SELECT returned them
    monitored_pages,  \* table monitored_pages: page id -> [url, last_checked_at]
    version,          \* the web: which version of the page d01 is served
    enrich,           \* the web: how the speaker search answers
    localDate,        \* the current date in Asia/Shanghai, <<y, m, d>>
    cpc,              \* crawl_page: "idle", "loop", "done" or "raised"
    cpage,            \* crawl_page: page_id
    final_url,        \* crawl_page: final_url of the listing page
    detail_urls,      \* crawl_page: detail_urls
    idx,              \* crawl_page: position of the for loop in detail_urls
    results,          \* crawl_page: results
    ctoday,           \* crawl_page: today, the text read at line 317
    log,              \* one entry per loop iteration of the current crawl
    crawls,           \* number of crawl_page calls so far
    fetches,          \* number of pages the crawls begun so far fetch
    failures,         \* number of failures injected so far
    envChanges,       \* number of changes of the web or the date so far
    cleanPass,        \* pages crawled without failure since the last such change
    bpc,              \* run_crawl_all_pages: "none", "running", "returned" or "raised"
    bqueue,           \* run_crawl_all_pages: the pages the for loop has yet to crawl
    bdone,            \* run_crawl_all_pages: the pages crawl_page was called for
    summary,          \* run_crawl_all_pages: summary
    dtext,            \* extract_start_date: combined, as its date-like tokens
    dtoday,           \* extract_start_date: get_today_date()
    dresult,          \* extract_start_date: the date returned
    dstage,           \* "text", "parsed" (line 284) or "filtered" (line 322)
    dhanded           \* crawl_page: the record went on to upsert_meeting

dbVars == <<meetings, meeting_history, clock>>
upsertVars == <<calls, lastRecord, lastNow, outcome>>
hashVars == <<recA, recB, hashA, hashB, edits>>

concVars == <<wpc, wrec, wnow, wexisting, wout, writer, txMeetings, txHistory,
              started, faults, seen>>

webVars == <<version, enrich, localDate>>
crawlVars == <<monitored_pages, cpc, cpage, final_url, detail_urls, idx, results,
               ctoday, log, crawls, fetches, failures, envChanges, cleanPass>>

batchVars == <<bpc, bqueue, bdone, summary>>

dateVars == <<dtext, dtoday, dresult, dstage, dhanded>>

vars == <<dbVars, upsertVars, hashVars, concVars, webVars, crawlVars, batchVars,
          dateVars>>

\* what the actions of one specification leave alone
notUpsert == <<hashVars, concVars, webVars, crawlVars, batchVars, dateVars>>
notHash == <<dbVars, upsertVars, concVars, webVars, crawlVars, batchVars, dateVars>>
notConc == <<upsertVars, hashVars, webVars, crawlVars, batchVars, dateVars>>
notBatch == <<upsertVars, hashVars, concVars, dateVars>>
notDate == <<dbVars, upsertVars, hashVars, concVars, webVars, crawlVars, batchVars>>
notCrawl == <<notBatch, batchVars>>

----------------------------------------------------------------------------
(* Bounds of the model *)

MaxUpserts == 3
MaxEdits == 2
MaxConcCalls == 3
MaxFaults == 1
MaxCrawls == 3
MaxFailures == 1
MaxEnvChanges == 1
BigListingLinks == 22
MaxFetches == 26
MaxTokens == 2

----------------------------------------------------------------------------
(* Python values *)

NULL == "<None>"

\* None where a date or its isoformat text is expected
NoDate == <<>>

Get(record, key) == IF key \in DOMAIN record THEN record[key] ELSE NULL

MEETING_FIELDS ==
    << "source_page_url", "source_url", "title", "start_time", "location",
       "speaker", "topic", "abstract", "mode", "online_link",
       "speaker_intro", "speaker_intro_url" >>

FieldSet == { MEETING_FIELDS[i] : i \in 1..Len(MEETING_FIELDS) }

\* {field: d.get(field) for field in MEETING_FIELDS}
PayloadOf(d) == [ f \in FieldSet |-> Get(d, f) ]

----------------------------------------------------------------------------
(* Text: a string compared by code point is a sequence of code points *)

RECURSIVE StrLess(_, _)
StrLess(a, b) ==
    IF b = <<>> THEN FALSE
    ELSE IF a = <<>> THEN TRUE
    ELSE IF Head(a) # Head(b) THEN Head(a) < Head(b)
    ELSE StrLess(Tail(a), Tail(b))

Digit(n) == 48 + n
TwoDigits(n) == << Digit(n \div 10), Digit(n % 10) >>
FourDigits(n) == << Digit(n \div 1000), Digit((n \div 100) % 10),
                    Digit((n \div 10) % 10), Digit(n % 10) >>

\* datetime.isoformat() of the instant t on 2025-01-01, UTC: the fraction is
\* left out when the microsecond is 0.
IsoFormat(t) ==
    LET sec  == (t \div 2) % 60
        min  == (t \div 120) % 60
        frac == IF t % 2 = 0 THEN <<>>
                ELSE << 46, Digit(5), Digit(0), Digit(0), Digit(0), Digit(0), Digit(0) >>
    IN  FourDigits(2025) \o <<45>> \o TwoDigits(1) \o <<45>> \o TwoDigits(1) \o <<84>>
        \o TwoDigits(0) \o <<58>> \o TwoDigits(min) \o <<58>> \o TwoDigits(sec)
        \o frac \o << 43, Digit(0), Digit(0), 58, Digit(0), Digit(0) >>

----------------------------------------------------------------------------
(* JSON: a document is the sequence of its <<key, value token>> members *)

\* a non-ASCII character is written {U+XXXX} in the strings of the model
NonAscii == { "seminar-{U+8BB2}{U+5EA7}" }

\* what ensure_ascii=True writes for a string: \uXXXX for each non-ASCII character
AsciiEscape(v) == IF v = "seminar-{U+8BB2}{U+5EA7}" THEN "seminar-\\u8bb2\\u5ea7" ELSE v

AsciiUnescape(s) ==
    IF \E v \in NonAscii : AsciiEscape(v) = s
    THEN CHOOSE v \in NonAscii : AsciiEscape(v) = s
    ELSE s

JsonToken(v, ensure_ascii) ==
    IF v = NULL THEN << "null" >>
    ELSE << "str", IF ensure_ascii THEN AsciiEscape(v) ELSE v >>

\* json.dumps(payload, ensure_ascii=...): the members in the order of keys
json_dumps(payload, keys, ensure_ascii) ==
    [ i \in 1..Len(keys) |-> << keys[i], JsonToken(payload[keys[i]], ensure_ascii) >> ]

\* json.loads of such a document
json_loads(doc) ==
    [ k \in { doc[i][1] : i \in 1..Len(doc) } |->
        LET i == CHOOSE j \in 1..Len(doc) : doc[j][1] = k
        IN  IF doc[i][2] = << "null" >> THEN NULL ELSE AsciiUnescape(doc[i][2][2]) ]

----------------------------------------------------------------------------
(* app/db.py: the store *)

required_keys == { "source_page_url", "source_url", "data_hash" }

\* SELECT ... FROM meetings WHERE source_url = ?   (0: no row)
SelectBySourceUrl(ms, url) ==
    LET hits == { i \in 1..Len(ms) : url # NULL /\ ms[i].source_url = url }
    IN  IF hits = {} THEN 0 ELSE CHOOSE i \in hits : TRUE

\* the INSERT INTO meetings of the created branch
InsertedRowBad(record, now, id) ==
    PayloadOf(record) @@
    [ id |-> id, data_hash |-> Get(record, "data_hash"),
      created_at |-> now, last_seen_at |-> now, last_updated_at |-> now + 1 ]

InsertedRow(record, now, id) ==
    PayloadOf(record) @@
    [ id |-> id, data_hash |-> Get(record, "data_hash"),
      created_at |-> now, last_seen_at |-> now, last_updated_at |-> now ]

\* the INSERT INTO meeting_history of the changed branch
HistoryRowBad(existing, record, now, id) ==
    [ id |-> id, meeting_id |-> existing.id, recorded_at |-> now,
      data_hash |-> Get(record, "data_hash"),
      payload_json |-> json_dumps(PayloadOf(record), MEETING_FIELDS, TRUE) ]

HistoryRowLate(existing, record, now, id) ==
    [ id |-> id, meeting_id |-> existing.id, recorded_at |-> now,
      data_hash |-> existing.data_hash,
      payload_json |-> json_dumps(PayloadOf(record), MEETING_FIELDS, TRUE) ]

HistoryRow(existing, record, now, id) ==
    [ id |-> id, meeting_id |-> existing.id, recorded_at |-> now,
      data_hash |-> existing.data_hash,
      payload_json |-> json_dumps(PayloadOf(existing), MEETING_FIELDS, TRUE) ]

\* the UPDATE meetings SET ... of the changed branch (source_url is not set)
UpdatedRowKeepsHash(existing, record, now) ==
    [ f \in DOMAIN existing |->
        IF f \in FieldSet \ {"source_url"} THEN Get(record, f)
        ELSE IF f \in {"last_seen_at", "last_updated_at"} THEN now
        ELSE existing[f] ]

UpdatedRow(existing, record, now) ==
    [ f \in DOMAIN existing |->
        IF f \in FieldSet \ {"source_url"} THEN Get(record, f)
        ELSE IF f = "data_hash" THEN Get(record, "data_hash")
        ELSE IF f \in {"last_seen_at", "last_updated_at"} THEN now
        ELSE existing[f] ]

\* UPDATE meetings SET last_seen_at = ? of the unchanged branch
SeenRowBad(existing, now) ==
    [ existing EXCEPT !.last_seen_at = now, !.last_updated_at = now ]

SeenRow(existing, now) == [ existing EXCEPT !.last_seen_at = now ]

\* the NOT NULL columns a written meetings row must fill
NotNullOk(row) ==
    /\ row.source_page_url # NULL
    /\ row.source_url # NULL
    /\ row.data_hash # NULL

Returned(id, created, changed) ==
    [ kind |-> "ok", meeting_id |-> id, created |-> created, changed |-> changed ]

Raised(kind) ==
    [ kind |-> kind, meeting_id |-> 0, created |-> FALSE, changed |-> FALSE ]

Result(ms, hs, out) == [ meetings |-> ms, history |-> hs, outcome |-> out ]

\* upsert_meeting run alone against the tables ms, hs.  A statement that
\* raises leaves the connection uncommitted, and close() rolls it back.
upsert_meeting(ms, hs, record, now) ==
    IF required_keys \ DOMAIN record # {}
    THEN Result(ms, hs, Raised("ValueError"))
    ELSE
    LET eid == SelectBySourceUrl(ms, record["source_url"]) IN
    IF eid = 0
    THEN LET row == InsertedRow(record, now, Len(ms) + 1) IN
         IF NotNullOk(row)
         THEN Result(Append(ms, row), hs, Returned(row.id, TRUE, TRUE))
         ELSE Result(ms, hs, Raised("IntegrityError"))
    ELSE
    LET existing == ms[eid] IN
    IF existing.data_hash # Get(record, "data_hash")
    THEN LET row == UpdatedRow(existing, record, now)
             hist == HistoryRow(existing, record, now, Len(hs) + 1)
         IN  IF NotNullOk(row)
             THEN Result([ms EXCEPT ![eid] = row], Append(hs, hist),
                         Returned(eid, FALSE, TRUE))
             ELSE Result(ms, hs, Raised("IntegrityError"))
    ELSE Result([ms EXCEPT ![eid] = SeenRow(existing, now)], hs,
                Returned(eid, FALSE, FALSE))

----------------------------------------------------------------------------
(* SpecUpsert: upsert_meeting called again and again, one call at a time,  *)
(* with records of every shape a caller can pass.                          *)

NoRecord == [ source_url |-> NULL ]

UpsertRecords ==
    { [ source_page_url |-> "p1", source_url |-> u, title |-> t, data_hash |-> h ]
        @@ [ f \in FieldSet \ {"source_page_url", "source_url", "title"} |-> NULL ]
        : u \in {"u1", "u2"}, t \in {"t1", "seminar-{U+8BB2}{U+5EA7}"}, h \in {"h1", "h2"} }
    \cup { [ source_page_url |-> "p1", source_url |-> "u1", title |-> "t1" ],
           [ source_page_url |-> NULL, source_url |-> "u1", title |-> "t1",
             data_hash |-> "h2" ],
           [ source_page_url |-> "p1", source_url |-> "u1", title |-> "t1",
             data_hash |-> NULL ] }

Workers == {1, 2}

NoRow == [ id |-> 0 ]

ParkedConc ==
    /\ wpc = [w \in Workers |-> "idle"]
    /\ wrec = [w \in Workers |-> NoRecord]
    /\ wnow = [w \in Workers |-> 0]
    /\ wexisting = [w \in Workers |-> NoRow]
    /\ wout = [w \in Workers |-> Raised("none")]
    /\ writer = 0
    /\ txMeetings = <<>>
    /\ txHistory = <<>>
    /\ started = 0
    /\ faults = 0
    /\ seen = [ meetings |-> <<>>, history |-> <<>> ]

NoSummary == [ pages |-> 0, total |-> 0, created |-> 0, changed |-> 0 ]

ParkedDate ==
    /\ dtext = <<>> /\ dtoday = NoDate /\ dresult = NoDate
    /\ dstage = "text" /\ dhanded = FALSE

ParkedBatch ==
    /\ bpc = "none" /\ bqueue = <<>> /\ bdone = {} /\ summary = NoSummary
    /\ ParkedDate

ParkedCrawl ==
    /\ ParkedBatch
    /\ monitored_pages = <<>>
    /\ version = 1 /\ enrich = "up" /\ localDate = <<2025, 3, 1>>
    /\ cpc = "idle" /\ cpage = 0 /\ final_url = NULL
    /\ detail_urls = <<>> /\ idx = 0 /\ results = <<>> /\ ctoday = NoDate
    /\ log = <<>>
    /\ crawls = 0 /\ fetches = 0 /\ failures = 0 /\ envChanges = 0 /\ cleanPass = {}

ParkedHash ==
    /\ recA = NoRecord /\ recB = NoRecord
    /\ hashA = NULL /\ hashB = NULL
    /\ edits = 0

ParkedUpsert ==
    /\ calls = 0
    /\ lastRecord = NoRecord
    /\ lastNow = 0
    /\ outcome = Raised("none")

InitUpsert ==
    /\ meetings = <<>>
    /\ meeting_history = <<>>
    /\ clock = 0
    /\ calls = 0
    /\ lastRecord = NoRecord
    /\ lastNow = 0
    /\ outcome = Raised("none")
    /\ ParkedHash
    /\ ParkedConc
    /\ ParkedCrawl

\* one call of upsert_meeting(record); the clock has moved on when the next
\* call reads it
UpsertCall(record, d) ==
    /\ calls < MaxUpserts
    /\ LET r == upsert_meeting(meetings, meeting_history, record, clock) IN
        /\ meetings' = r.meetings
        /\ meeting_history' = r.history
        /\ outcome' = r.outcome
    /\ lastRecord' = record
    /\ lastNow' = clock
    /\ clock' = clock + d
    /\ calls' = calls + 1
    /\ UNCHANGED notUpsert

NextUpsert == \E record \in UpsertRecords, d \in {1, 2} : UpsertCall(record, d)

SpecUpsert == InitUpsert /\ [][NextUpsert]_vars

----------------------------------------------------------------------------
(* app/crawler.py: dates *)

IsLeap(y) == (y % 4 = 0 /\ y % 100 # 0) \/ y % 400 = 0

DaysInMonth(y, m) ==
    IF m = 2 THEN (IF IsLeap(y) THEN 29 ELSE 28)
    ELSE IF m \in {4, 6, 9, 11} THEN 30 ELSE 31

\* datetime.date(y, m, d) accepts these and raises ValueError for the rest
DateOk(y, m, d) == y \in 1..9999 /\ m \in 1..12 /\ d \in 1..DaysInMonth(y, m)

\* date.isoformat(): YYYY-MM-DD
date_isoformat(dt) ==
    FourDigits(dt[1]) \o <<45>> \o TwoDigits(dt[2]) \o <<45>> \o TwoDigits(dt[3])

Min(S) == CHOOSE x \in S : \A y \in S : x <= y

\* A text, as the date patterns see it, is the sequence of its date-like
\* tokens: [kind |-> "ymd", y, m, d] for year-month-day, [kind |-> "md", m, d]
\* for month-day.  DATE_WITH_YEAR_PATTERN wants a year 20dd; the month-day
\* tail of any other year-month-day token is a DATE_NO_YEAR_PATTERN match.
WithYearMatches(text) ==
    { i \in 1..Len(text) : text[i].kind = "ymd" /\ text[i].y \in 2000..2099 }

NoYearMatches(text) ==
    { i \in 1..Len(text) :
        text[i].kind = "md" \/ (text[i].kind = "ymd" /\ text[i].y \notin 2000..2099) }

parse_start_date(text, today) ==
    IF WithYearMatches(text) # {}
    THEN LET t == text[Min(WithYearMatches(text))]
         IN  IF DateOk(t.y, t.m, t.d) THEN << t.y, t.m, t.d >> ELSE NoDate
    ELSE IF NoYearMatches(text) # {}
    THEN LET t == text[Min(NoYearMatches(text))]
         IN  IF DateOk(today[1], t.m, t.d) THEN << today[1], t.m, t.d >> ELSE NoDate
    ELSE NoDate

----------------------------------------------------------------------------
(* app/crawler.py: build_record *)

\* A fetched detail page is what extract_title, parse_fields and the date
\* patterns get out of its HTML: [title, fields, dates].

\* search_speaker_intro: (summary, url) of the first search result; the
\* search answers differently from run to run ("up", "other") or fails ("down")
search_speaker_intro(speaker, search) ==
    IF speaker \in {"", "X"} THEN << NULL, NULL >>
    ELSE IF search = "up" THEN << "bio of " \o speaker, "https://who/1" >>
    ELSE IF search = "other" THEN << "about " \o speaker, "https://who/2" >>
    ELSE << NULL, NULL >>

Or(a, b) == IF a \in {NULL, ""} THEN b ELSE a

\* keys of a payload in the order sort_keys=True writes them
SortedFields ==
    << "abstract", "location", "mode", "online_link", "source_page_url",
       "source_url", "speaker", "speaker_intro", "speaker_intro_url",
       "start_time", "title", "topic" >>

\* hashlib.sha256(...).hexdigest(), taken to be free of collisions
sha256(doc) == "sha256:" \o ToString(doc)

\* lines 302-304: the digest of the twelve payload fields of the record
ContentHashBad(record) ==
    sha256(<< json_dumps(PayloadOf(record), SortedFields, FALSE), record["start_date"] >>)

ContentHash(record) ==
    sha256(json_dumps(PayloadOf(record), SortedFields, FALSE))

build_record(source_page_url, detail_url, page, search, today) ==
    LET title  == page.title
        fields == page.fields
        intro  == search_speaker_intro(Or(fields.speaker, ""), search)
        start_date == parse_start_date(page.dates, today)
        record ==
            [ source_page_url |-> source_page_url,
              source_url |-> detail_url,
              title |-> Or(title, fields.topic),
              start_time |-> fields.start_time,
              start_date |-> IF start_date # NoDate THEN date_isoformat(start_date)
                             ELSE NoDate,
              location |-> fields.location,
              speaker |-> fields.speaker,
              topic |-> Or(fields.topic, title),
              abstract |-> fields.abstract,
              mode |-> fields.mode,
              online_link |-> fields.online_link,
              speaker_intro |-> intro[1],
              speaker_intro_url |-> intro[2] ]
    IN  record @@ [ data_hash |-> ContentHash(record) ]

NoFields ==
    [ start_time |-> NULL, location |-> NULL, speaker |-> NULL, topic |-> NULL,
      abstract |-> NULL, mode |-> NULL, online_link |-> NULL ]

Ymd(y, m, d) == [ kind |-> "ymd", y |-> y, m |-> m, d |-> d ]
Md(m, d) == [ kind |-> "md", y |-> 0, m |-> m, d |-> d ]

----------------------------------------------------------------------------
(* SpecHash: the content hash of build_record's lines 302-304 applied to    *)
(* pairs of records: a built record and the same record with fields changed *)

HashPages ==
    { [ title |-> "Seminar on graphs",
        fields |-> [ NoFields EXCEPT !.start_time = "3-10 14:00",
                                     !.speaker = "Jane Doe", !.mode = "online" ],
        dates |-> << Md(3, 10) >> ],
      [ title |-> "",
        fields |-> [ NoFields EXCEPT !.topic = "seminar-{U+8BB2}{U+5EA7}" ],
        dates |-> <<>> ] }

HashValues == { NULL, "x" }

InitHash ==
    /\ meetings = <<>> /\ meeting_history = <<>> /\ clock = 0
    /\ ParkedUpsert
    /\ ParkedConc
    /\ ParkedCrawl
    /\ \E pg \in HashPages, en \in {"up", "down"},
          td \in { <<2025, 3, 1>>, <<2026, 3, 1>> } :
          recA = build_record("L1", "d01", pg, en, td)
    /\ recB = recA
    /\ hashA = NULL /\ hashB = NULL
    /\ edits = 0

\* change one payload field of recB
EditPayloadField(f, v) ==
    /\ edits < MaxEdits
    /\ recB' = [recB EXCEPT ![f] = v]
    /\ edits' = edits + 1
    /\ hashA' = NULL /\ hashB' = NULL
    /\ UNCHANGED <<recA, notHash>>

\* change a field of recB outside the payload
EditStartDate(dt) ==
    /\ edits < MaxEdits
    /\ recB' = [recB EXCEPT !["start_date"] = dt]
    /\ edits' = edits + 1
    /\ hashA' = NULL /\ hashB' = NULL
    /\ UNCHANGED <<recA, notHash>>

HashBoth ==
    /\ hashA = NULL
    /\ hashA' = ContentHash(recA)
    /\ hashB' = ContentHash(recB)
    /\ UNCHANGED <<recA, recB, edits, notHash>>

NextHash ==
    \/ \E f \in FieldSet, v \in HashValues : EditPayloadField(f, v)
    \/ \E dt \in { NoDate, date_isoformat(<<2025, 3, 10>>),
                    date_isoformat(<<2026, 3, 10>>) } : EditStartDate(dt)
    \/ HashBoth

SpecHash == InitHash /\ [][NextHash]_vars

----------------------------------------------------------------------------
(* SpecConc: upsert_meeting calls of two threads (a 'fetch now' background  *)
(* task and the scheduled crawl), each on its own connection, statement by  *)
(* statement, and a reader.                                                 *)

ConcRecords ==
    { [ source_page_url |-> "p1", source_url |-> u, title |-> h[2], data_hash |-> h[1] ]
        @@ [ f \in FieldSet \ {"source_page_url", "source_url", "title"} |-> NULL ]
        : u \in {"u1"}, h \in { <<"h1", "t1">>, <<"h2", "t2">>, <<"h3", "t3">> } }

InitConc ==
    /\ meetings = <<>> /\ meeting_history = <<>> /\ clock = 0
    /\ ParkedUpsert
    /\ ParkedHash
    /\ ParkedConc
    /\ ParkedCrawl

\* get_connection: sqlite3.connect() with the default isolation level opens
\* a transaction before the first INSERT/UPDATE and publishes it at commit();
\* until then other connections see the committed tables.
VisibleBad(committed, pending) == pending

Visible(committed, pending) == committed

\* lines 184-189: the required-key check, then now = utc_now_iso()
Begin(w, record) ==
    /\ wpc[w] = "idle"
    /\ started < MaxConcCalls
    /\ started' = started + 1
    /\ wrec' = [wrec EXCEPT ![w] = record]
    /\ IF required_keys \ DOMAIN record # {}
       THEN /\ wout' = [wout EXCEPT ![w] = Raised("ValueError")]
            /\ UNCHANGED <<wpc, wnow, clock>>
       ELSE /\ wpc' = [wpc EXCEPT ![w] = "select"]
            /\ wnow' = [wnow EXCEPT ![w] = clock]
            /\ clock' = clock + 1
            /\ wout' = [wout EXCEPT ![w] = Raised("none")]
    /\ UNCHANGED <<meetings, meeting_history, wexisting, writer, txMeetings,
                   txHistory, faults, seen, notConc>>

\* lines 191-200, 202, 239: the SELECT runs outside any transaction and
\* reads the committed table; the branch is chosen from its row
Select(w) ==
    /\ wpc[w] = "select"
    /\ LET eid == SelectBySourceUrl(meetings, wrec[w]["source_url"])
           row == IF eid = 0 THEN NoRow ELSE meetings[eid]
       IN  /\ wexisting' = [wexisting EXCEPT ![w] = row]
           /\ wpc' = [wpc EXCEPT ![w] =
                        IF eid = 0 THEN "insert"
                        ELSE IF row.data_hash # Get(wrec[w], "data_hash") THEN "history"
                        ELSE "seen"]
    /\ UNCHANGED <<dbVars, wrec, wnow, wout, writer, txMeetings, txHistory,
                   started, faults, seen, notConc>>

\* the statement raised: the with block is left without commit() and
\* close() rolls the open transaction back
RaiseIn(w, kind) ==
    /\ wpc' = [wpc EXCEPT ![w] = "idle"]
    /\ wout' = [wout EXCEPT ![w] = Raised(kind)]
    /\ writer' = 0
    /\ txMeetings' = <<>>
    /\ txHistory' = <<>>

\* a write statement ran inside the transaction of w
Wrote(w, ms, hs, next) ==
    /\ wpc' = [wpc EXCEPT ![w] = next]
    /\ writer' = w
    /\ txMeetings' = ms
    /\ txHistory' = hs
    /\ meetings' = Visible(meetings, ms)
    /\ meeting_history' = Visible(meeting_history, hs)
    /\ UNCHANGED wout

\* lines 204-231: INSERT INTO meetings; source_url is UNIQUE
InsertMeeting(w) ==
    /\ wpc[w] = "insert"
    /\ writer = 0
    /\ LET row == InsertedRow(wrec[w], wnow[w], Len(meetings) + 1) IN
       IF NotNullOk(row) /\ SelectBySourceUrl(meetings, row.source_url) = 0
       THEN Wrote(w, Append(meetings, row), meeting_history, "commit")
       ELSE RaiseIn(w, "IntegrityError") /\ UNCHANGED <<meetings, meeting_history>>
    /\ UNCHANGED <<clock, wrec, wnow, wexisting, started, faults, seen, notConc>>

\* lines 240-254: INSERT INTO meeting_history, from the row the SELECT returned
InsertHistory(w) ==
    /\ wpc[w] = "history"
    /\ writer = 0
    /\ Wrote(w, meetings,
             Append(meeting_history,
                    HistoryRow(wexisting[w], wrec[w], wnow[w], Len(meeting_history) + 1)),
             "update")
    /\ UNCHANGED <<clock, wrec, wnow, wexisting, started, faults, seen, notConc>>

\* lines 255-281: UPDATE meetings SET ... WHERE id = ?
UpdateMeeting(w) ==
    /\ wpc[w] = "update"
    /\ writer = w
    /\ LET eid == wexisting[w].id
           row == UpdatedRow(txMeetings[eid], wrec[w], wnow[w])
       IN  IF NotNullOk(row)
           THEN Wrote(w, [txMeetings EXCEPT ![eid] = row], txHistory, "commit")
           ELSE RaiseIn(w, "IntegrityError") /\ UNCHANGED <<meetings, meeting_history>>
    /\ UNCHANGED <<clock, wrec, wnow, wexisting, started, faults, seen, notConc>>

\* lines 284-287: UPDATE meetings SET last_seen_at = ? WHERE id = ?
UpdateSeen(w) ==
    /\ wpc[w] = "seen"
    /\ writer = 0
    /\ LET eid == wexisting[w].id IN
       Wrote(w, [meetings EXCEPT ![eid] = SeenRow(meetings[eid], wnow[w])],
             meeting_history, "commit")
    /\ UNCHANGED <<clock, wrec, wnow, wexisting, started, faults, seen, notConc>>

\* lines 40, 236, 282, 288: the return leaves the with block, commit()
Commit(w) ==
    /\ wpc[w] = "commit"
    /\ writer = w
    /\ meetings' = txMeetings
    /\ meeting_history' = txHistory
    /\ writer' = 0
    /\ txMeetings' = <<>>
    /\ txHistory' = <<>>
    /\ wpc' = [wpc EXCEPT ![w] = "idle"]
    /\ wout' = [wout EXCEPT ![w] =
                 IF wexisting[w] = NoRow
                 THEN Returned(SelectBySourceUrl(txMeetings, wrec[w]["source_url"]),
                               TRUE, TRUE)
                 ELSE Returned(wexisting[w].id, FALSE,
                               wexisting[w].data_hash # Get(wrec[w], "data_hash"))]
    /\ UNCHANGED <<clock, wrec, wnow, wexisting, started, faults, seen, notConc>>

\* lines 41-42: a statement or commit() of the open transaction raises
\* (disk full, I/O error); close() discards what the transaction wrote
StorageFault(w) ==
    /\ wpc[w] \in {"update", "commit"}
    /\ writer = w
    /\ faults < MaxFaults
    /\ faults' = faults + 1
    /\ RaiseIn(w, "OperationalError")
    /\ UNCHANGED <<dbVars, wrec, wnow, wexisting, started, seen, notConc>>

\* line 35: connect() waits 5 seconds for the write lock of another
\* connection, then the statement raises 'database is locked'
LockTimeout(w) ==
    /\ wpc[w] \in {"insert", "history", "seen"}
    /\ writer \notin {0, w}
    /\ wpc' = [wpc EXCEPT ![w] = "idle"]
    /\ wout' = [wout EXCEPT ![w] = Raised("OperationalError")]
    /\ UNCHANGED <<dbVars, wrec, wnow, wexisting, writer, txMeetings, txHistory,
                   started, faults, seen, notConc>>

\* a reader (get_meeting, get_meeting_history, list_meetings) on its own
\* connection: one SELECT returns the committed tables
Read ==
    /\ seen' = [ meetings |-> meetings, history |-> meeting_history ]
    /\ UNCHANGED <<dbVars, wpc, wrec, wnow, wexisting, wout, writer, txMeetings,
                   txHistory, started, faults, notConc>>

NextConc ==
    \/ \E w \in Workers, record \in ConcRecords : Begin(w, record)
    \/ \E w \in Workers : Select(w)
    \/ \E w \in Workers : InsertMeeting(w)
    \/ \E w \in Workers : InsertHistory(w)
    \/ \E w \in Workers : UpdateMeeting(w)
    \/ \E w \in Workers : UpdateSeen(w)
    \/ \E w \in Workers : Commit(w)
    \/ \E w \in Workers : StorageFault(w)
    \/ \E w \in Workers : LockTimeout(w)
    \/ Read

SpecConc == InitConc /\ [][NextConc]_vars

----------------------------------------------------------------------------
(* The web the crawler reads *)

\* response.url of fetch_html: the URL after redirects
Redirect(url) == IF url = "L2" THEN "L2f" ELSE url

BigUrl(i) == "d" \o ToString(100 + i)

\* an <a href> of a listing page: its visible text, what its href is
\* ("fragment": starts with #, "mailto", or the scheme of the joined URL)
\* and urljoin(base_url, href)
Anchor(text, kind, abs) == [ text |-> text, kind |-> kind, abs |-> abs ]

\* the anchor texts that contain one of CRAWL_KEYWORDS, case-insensitively
KeywordTexts == { "Seminar: graphs", "WORKSHOP day", "colloquium talk" }

ListingAnchors(url, v) ==
    IF url = "L1" THEN
        << Anchor("Seminar: graphs", "http", "d01"),
           Anchor("About us", "http", "d09"),
           Anchor("WORKSHOP day", "https", "d02"),
           Anchor("Seminar: graphs", "fragment", "#top"),
           Anchor("", "http", "d08"),
           Anchor("colloquium talk", "mailto", "mailto:office"),
           Anchor("colloquium talk", "ftp", "ftp://files"),
           Anchor("Seminar: graphs", "http", "d01"),
           Anchor("colloquium talk", "http", "d03") >>
    ELSE IF url = "L2f" THEN
        << Anchor("colloquium talk", "http", "d03"),
           IF v = 1 THEN Anchor("WORKSHOP day", "http", "d04")
           ELSE Anchor("WORKSHOP day", "http", "d02") >>
    ELSE IF url = "L3" THEN
        [ i \in 1..BigListingLinks |-> Anchor("Seminar: graphs", "http", BigUrl(i)) ]
    ELSE IF url = "L4" THEN
        << Anchor("Seminar: graphs", "http", "d01"),
           Anchor("Seminar: graphs", "http", "d01") >>
    ELSE <<>>

\* what extract_title, parse_fields and the date patterns find in a page
DetailPage(url, v) ==
    IF url = "d01" THEN
        [ title |-> "Graph seminar",
          fields |-> [ NoFields EXCEPT !.speaker = "Jane Doe",
                                       !.topic = "seminar-{U+8BB2}{U+5EA7}",
                                       !.start_time = "2025-03-10 14:00",
                                       !.location = IF v = 1 THEN "Room 1" ELSE "Room 2" ],
          dates |-> << Ymd(2025, 3, 10) >> ]
    ELSE IF url = "d02" THEN
        [ title |-> "Old talk", fields |-> NoFields, dates |-> << Ymd(2025, 1, 5) >> ]
    ELSE IF url = "d03" THEN
        [ title |-> "", fields |-> [ NoFields EXCEPT !.topic = "Today's talk" ],
          dates |-> << Md(3, 1) >> ]
    ELSE IF url = "d04" THEN
        [ title |-> "Autumn workshop", fields |-> NoFields,
          dates |-> << Ymd(2025, 10, 2) >> ]
    ELSE IF url = "L4" THEN
        [ title |-> "Colloquium", fields |-> [ NoFields EXCEPT !.speaker = "X" ],
          dates |-> <<>> ]
    ELSE IF url = "L5" THEN
        [ title |-> "", fields |-> NoFields, dates |-> << Md(2, 30) >> ]
    ELSE
        [ title |-> "Talk", fields |-> NoFields, dates |-> <<>> ]

PageUrl == << "L1", "L2", "L3", "L4", "L5" >>

\* the sets of pages a user can have registered
Configs == { {1, 2}, {3}, {4, 5} }

----------------------------------------------------------------------------
(* app/crawler.py: crawl_page *)

Range(q) == { q[i] : i \in 1..Len(q) }

RECURSIVE CollectLinks(_, _)
CollectLinks(anchors, links) ==
    IF anchors = <<>> THEN links
    ELSE LET a == Head(anchors)
             keep == /\ a.text # ""
                     /\ a.text \in KeywordTexts
                     /\ a.kind \notin {"fragment", "mailto"}
                     /\ a.kind \in {"http", "https"}
                     /\ a.abs \notin Range(links)
         IN  CollectLinks(Tail(anchors), IF keep THEN Append(links, a.abs) ELSE links)

extract_candidate_links(anchors) == CollectLinks(anchors, <<>>)

\* lines 311-314
DetailUrlsBad(candidates, final) ==
    IF Len(candidates) >= 2 THEN candidates ELSE << final >>

DetailUrls(candidates, final) ==
    IF Len(candidates) >= 2
    THEN SubSeq(candidates, 1, IF Len(candidates) < 20 THEN Len(candidates) ELSE 20)
    ELSE << final >>

\* line 322: record.get("start_date") and record["start_date"] < today
IsStaleBad(start_date, today) == start_date # NoDate /\ ~StrLess(today, start_date)

IsStale(start_date, today) == start_date # NoDate /\ StrLess(start_date, today)

\* lines 334-335: the except clause ends the iteration, the for loop goes on
AfterErrorBad(i, urls) == Len(urls) + 1

AfterError(i, urls) == i + 1

Entry(url, what, date, slept) ==
    [ url |-> url, what |-> what, date |-> date, slept |-> slept ]

CurUrl == detail_urls[idx]
CurFinal == Redirect(CurUrl)
CurDate == parse_start_date(DetailPage(CurFinal, version).dates, localDate)
CurRecord ==
    build_record(final_url, CurFinal, DetailPage(CurFinal, version), enrich, localDate)

InLoop == cpc = "loop" /\ idx <= Len(detail_urls)

InitCrawl ==
    /\ meetings = <<>> /\ meeting_history = <<>> /\ clock = 0
    /\ ParkedUpsert
    /\ ParkedHash
    /\ ParkedConc
    /\ ParkedBatch
    /\ \E cfg \in Configs :
          monitored_pages = [ id \in cfg |-> [ url |-> PageUrl[id], last_checked_at |-> -1 ] ]
    /\ version = 1 /\ enrich = "up" /\ localDate = <<2025, 3, 1>>
    /\ cpc = "idle" /\ cpage = 0 /\ final_url = NULL
    /\ detail_urls = <<>> /\ idx = 0 /\ results = <<>> /\ ctoday = NoDate
    /\ log = <<>>
    /\ crawls = 0 /\ fetches = 0 /\ failures = 0 /\ envChanges = 0 /\ cleanPass = {}

\* lines 309-317: the listing page is fetched, the detail URLs are chosen
EnterCrawl(p) ==
    /\ cpc # "loop"
    /\ crawls < MaxCrawls
    /\ p \in DOMAIN monitored_pages
    /\ LET final == Redirect(monitored_pages[p].url)
           candidates == extract_candidate_links(ListingAnchors(final, version))
       IN  /\ final_url' = final
           /\ detail_urls' = DetailUrls(candidates, final)
           /\ fetches' = fetches + 1 + Len(DetailUrls(candidates, final))
           /\ fetches + 1 + Len(DetailUrls(candidates, final)) <= MaxFetches
    /\ cpage' = p
    /\ cpc' = "loop"
    /\ idx' = 1
    /\ results' = <<>>
    /\ ctoday' = date_isoformat(localDate)
    /\ log' = <<>>
    /\ crawls' = crawls + 1
    /\ UNCHANGED <<dbVars, webVars, monitored_pages, failures, envChanges, cleanPass,
                   notBatch>>

\* main.py fetch_page: crawl_page(page["id"], page["url"]) as a background task
StartCrawl(p) == EnterCrawl(p) /\ UNCHANGED batchVars

\* line 309: fetch_html of the listing page raises, and so does crawl_page
ListingRaises(p) ==
    /\ cpc # "loop"
    /\ crawls < MaxCrawls
    /\ failures < MaxFailures
    /\ p \in DOMAIN monitored_pages
    /\ cpage' = p
    /\ cpc' = "raised"
    /\ final_url' = NULL
    /\ detail_urls' = <<>>
    /\ idx' = 0
    /\ results' = <<>>
    /\ log' = <<>>
    /\ crawls' = crawls + 1
    /\ fetches < MaxFetches
    /\ fetches' = fetches + 1
    /\ failures' = failures + 1
    /\ cleanPass' = cleanPass \ {p}
    /\ UNCHANGED <<dbVars, webVars, monitored_pages, ctoday, envChanges, notBatch>>

ListingFetchFails(p) == ListingRaises(p) /\ UNCHANGED batchVars

\* an iteration that raised: lines 334-335
Caught(what, date) ==
    /\ failures < MaxFailures
    /\ failures' = failures + 1
    /\ log' = Append(log, Entry(CurUrl, what, date, FALSE))
    /\ idx' = AfterError(idx, detail_urls)
    /\ UNCHANGED <<dbVars, webVars, monitored_pages, cpc, cpage, final_url, detail_urls,
                   results, ctoday, crawls, fetches, envChanges, cleanPass, notCrawl>>

\* line 320: fetch_html(detail_url) raises (network error, timeout, non-2xx)
DetailFetchFails == InLoop /\ Caught("fetch_error", NoDate)

\* line 321: build_record raises
DetailBuildFails == InLoop /\ Caught("build_error", NoDate)

\* line 324: upsert_meeting raises a storage error
DetailStoreFails ==
    /\ InLoop
    /\ ~IsStale(CurRecord["start_date"], ctoday)
    /\ Caught("store_error", CurDate)

\* lines 322-323: the record is stale, continue
DetailStale ==
    /\ InLoop
    /\ IsStale(CurRecord["start_date"], ctoday)
    /\ log' = Append(log, Entry(CurUrl, "stale", CurDate, FALSE))
    /\ idx' = idx + 1
    /\ UNCHANGED <<dbVars, webVars, monitored_pages, cpc, cpage, final_url, detail_urls,
                   results, ctoday, crawls, fetches, failures, envChanges, cleanPass, notCrawl>>

\* lines 324-333: upsert_meeting(record), the result is kept, sleep(1)
DetailUpsert ==
    /\ InLoop
    /\ ~IsStale(CurRecord["start_date"], ctoday)
    /\ LET r == upsert_meeting(meetings, meeting_history, CurRecord, clock) IN
        /\ meetings' = r.meetings
        /\ meeting_history' = r.history
        /\ IF r.outcome.kind = "ok"
           THEN /\ results' = Append(results,
                        [ meeting_id |-> r.outcome.meeting_id,
                          created |-> r.outcome.created,
                          changed |-> r.outcome.changed,
                          source_url |-> CurFinal ])
                /\ log' = Append(log, Entry(CurUrl, "upsert", CurDate, TRUE))
                /\ idx' = idx + 1
           ELSE /\ results' = results
                /\ log' = Append(log, Entry(CurUrl, "upsert_raised", CurDate, FALSE))
                /\ idx' = AfterError(idx, detail_urls)
    /\ clock' = clock + 1
    /\ UNCHANGED <<webVars, monitored_pages, cpc, cpage, final_url, detail_urls,
                   ctoday, crawls, fetches, failures, envChanges, cleanPass, notCrawl>>

ErrorWhats == { "fetch_error", "build_error", "store_error", "upsert_raised" }

\* lines 337-338: update_page_checked(page_id, utc_now_iso()), return results
FinishCrawl ==
    /\ cpc = "loop"
    /\ idx > Len(detail_urls)
    /\ monitored_pages' = [monitored_pages EXCEPT ![cpage].last_checked_at = clock]
    /\ clock' = clock + 1
    /\ cpc' = "done"
    /\ cleanPass' = IF \E i \in 1..Len(log) : log[i].what \in ErrorWhats
                    THEN cleanPass \ {cpage}
                    ELSE cleanPass \cup {cpage}
    /\ UNCHANGED <<meetings, meeting_history, webVars, cpage, final_url, detail_urls,
                   idx, results, ctoday, log, crawls, fetches, failures, envChanges, notCrawl>>

\* between two crawls the page d01 is edited and the listing L2 drops its
\* link to d04
WebChange ==
    /\ cpc # "loop"
    /\ envChanges < MaxEnvChanges
    /\ version' = 3 - version
    /\ envChanges' = envChanges + 1
    /\ cleanPass' = {}
    /\ UNCHANGED <<dbVars, enrich, localDate, monitored_pages, cpc, cpage, final_url,
                   detail_urls, idx, results, ctoday, log, crawls, fetches, failures, notCrawl>>

\* between two crawls the speaker search starts to answer differently, or
\* to fail
EnrichChange ==
    /\ cpc # "loop"
    /\ envChanges < MaxEnvChanges
    /\ enrich' = IF enrich = "up" THEN "other" ELSE IF enrich = "other" THEN "down" ELSE "up"
    /\ envChanges' = envChanges + 1
    /\ cleanPass' = {}
    /\ UNCHANGED <<dbVars, version, localDate, monitored_pages, cpc, cpage, final_url,
                   detail_urls, idx, results, ctoday, log, crawls, fetches, failures, notCrawl>>

\* between two crawls midnight passes
NextDay(dt) ==
    IF dt[3] < DaysInMonth(dt[1], dt[2]) THEN << dt[1], dt[2], dt[3] + 1 >>
    ELSE IF dt[2] < 12 THEN << dt[1], dt[2] + 1, 1 >>
    ELSE << dt[1] + 1, 1, 1 >>

Midnight ==
    /\ cpc # "loop"
    /\ envChanges < MaxEnvChanges
    /\ localDate' = NextDay(localDate)
    /\ envChanges' = envChanges + 1
    /\ cleanPass' = {}
    /\ UNCHANGED <<dbVars, version, enrich, monitored_pages, cpc, cpage, final_url,
                   detail_urls, idx, results, ctoday, log, crawls, fetches, failures, notCrawl>>

Next ==
    \/ \E p \in 1..Len(PageUrl) : StartCrawl(p)
    \/ \E p \in 1..Len(PageUrl) : ListingFetchFails(p)
    \/ DetailFetchFails
    \/ DetailBuildFails
    \/ DetailStoreFails
    \/ DetailStale
    \/ DetailUpsert
    \/ FinishCrawl
    \/ WebChange
    \/ EnrichChange
    \/ Midnight

Spec == InitCrawl /\ [][Next]_vars

----------------------------------------------------------------------------
(* app/main.py: run_crawl_all_pages *)

\* list_monitored_pages: ORDER BY id DESC
RECURSIVE DescIds(_)
DescIds(S) ==
    IF S = {} THEN <<>>
    ELSE LET m == CHOOSE x \in S : \A y \in S : y <= x
         IN  << m >> \o DescIds(S \ {m})

\* run_crawl_for_page, lines 45-47
Counts(rs) ==
    [ total |-> Len(rs),
      created |-> Cardinality({ i \in 1..Len(rs) : rs[i].created }),
      changed |-> Cardinality({ i \in 1..Len(rs) : rs[i].changed }) ]

InitBatch == InitCrawl

\* lines 51-52: pages = list_monitored_pages(), the summary starts at zero
BatchStart ==
    /\ bpc # "running"
    /\ cpc # "loop"
    /\ crawls < MaxCrawls
    /\ bpc' = "running"
    /\ bqueue' = DescIds(DOMAIN monitored_pages)
    /\ bdone' = {}
    /\ summary' = [ NoSummary EXCEPT !.pages = Cardinality(DOMAIN monitored_pages) ]
    /\ cpc' = "idle"
    /\ UNCHANGED <<dbVars, webVars, monitored_pages, cpage, final_url, detail_urls, idx,
                   results, ctoday, log, crawls, fetches, failures, envChanges,
                   cleanPass, notBatch>>

\* lines 53-54, 44: the for loop calls crawl_page for the next page
BatchCrawl ==
    /\ bpc = "running"
    /\ cpc = "idle"
    /\ bqueue # <<>>
    /\ EnterCrawl(Head(bqueue))
    /\ bqueue' = Tail(bqueue)
    /\ bdone' = bdone \cup {Head(bqueue)}
    /\ UNCHANGED <<bpc, summary>>

\* lines 53-54, 44: crawl_page raises at its line 309; neither
\* run_crawl_for_page nor run_crawl_all_pages has a try, the batch ends
BatchListingFails ==
    /\ bpc = "running"
    /\ cpc = "idle"
    /\ bqueue # <<>>
    /\ ListingRaises(Head(bqueue))
    /\ bpc' = "raised"
    /\ bdone' = bdone \cup {Head(bqueue)}
    /\ UNCHANGED <<bqueue, summary>>

\* lines 45-47, 55-57: crawl_page returned, its counts are added
BatchCollect ==
    /\ bpc = "running"
    /\ cpc = "done"
    /\ summary' = [ summary EXCEPT !.total = @ + Counts(results).total,
                                   !.created = @ + Counts(results).created,
                                   !.changed = @ + Counts(results).changed ]
    /\ cpc' = "idle"
    /\ UNCHANGED <<dbVars, webVars, monitored_pages, cpage, final_url, detail_urls, idx,
                   results, ctoday, log, crawls, fetches, failures, envChanges,
                   cleanPass, bpc, bqueue, bdone, notBatch>>

\* line 58: return summary
BatchReturn ==
    /\ bpc = "running"
    /\ cpc = "idle"
    /\ bqueue = <<>>
    /\ bpc' = "returned"
    /\ UNCHANGED <<dbVars, webVars, crawlVars, bqueue, bdone, summary, notBatch>>

NextBatch ==
    \/ BatchStart
    \/ BatchCrawl
    \/ BatchListingFails
    \/ DetailFetchFails
    \/ DetailBuildFails
    \/ DetailStoreFails
    \/ DetailStale
    \/ DetailUpsert
    \/ FinishCrawl
    \/ BatchCollect
    \/ BatchReturn

SpecBatch == InitBatch /\ [][NextBatch]_vars

----------------------------------------------------------------------------
(* SpecDate: extract_start_date on texts of every shape, then the stale   *)
(* filter of crawl_page                                                    *)

DateTokens ==
    { Ymd(y, m, d) : y \in {1998, 2025}, m \in {2, 3, 13}, d \in {10, 29, 30} }
    \cup { Md(m, d) : m \in {2, 3, 13}, d \in {10, 29, 30} }

DateTexts == UNION { [1..n -> DateTokens] : n \in 0..MaxTokens }

InitDate ==
    /\ meetings = <<>> /\ meeting_history = <<>> /\ clock = 0
    /\ ParkedUpsert
    /\ ParkedHash
    /\ ParkedConc
    /\ monitored_pages = <<>>
    /\ version = 1 /\ enrich = "up" /\ localDate = <<2025, 3, 1>>
    /\ cpc = "idle" /\ cpage = 0 /\ final_url = NULL
    /\ detail_urls = <<>> /\ idx = 0 /\ results = <<>> /\ ctoday = NoDate
    /\ log = <<>>
    /\ crawls = 0 /\ fetches = 0 /\ failures = 0 /\ envChanges = 0 /\ cleanPass = {}
    /\ bpc = "none" /\ bqueue = <<>> /\ bdone = {} /\ summary = NoSummary
    /\ dtext \in DateTexts
    /\ dtoday \in { <<2025, 3, 1>>, <<2024, 3, 1>> }
    /\ dresult = NoDate
    /\ dstage = "text"
    /\ dhanded = FALSE

\* lines 112-114, 284: start_date = extract_start_date(lines, start_time)
ParseDate ==
    /\ dstage = "text"
    /\ dresult' = parse_start_date(dtext, dtoday)
    /\ dstage' = "parsed"
    /\ UNCHANGED <<dtext, dtoday, dhanded, notDate>>

\* lines 291, 317, 322-324: the stale filter on the record's start_date
FilterDate ==
    /\ dstage = "parsed"
    /\ dhanded' = ~IsStale(IF dresult # NoDate THEN date_isoformat(dresult) ELSE NoDate,
                           date_isoformat(dtoday))
    /\ dstage' = "filtered"
    /\ UNCHANGED <<dtext, dtoday, dresult, notDate>>

NextDate ==
    \/ ParseDate
    \/ FilterDate

SpecDate == InitDate /\ [][NextDate]_vars

----------------------------------------------------------------------------
(* Claims about upsert_meeting called alone (SpecUpsert) *)

\* the three required fields are present and not None
ValidRecord(r) ==
    /\ required_keys \subseteq DOMAIN r
    /\ \A k \in required_keys : r[k] # NULL

\* every row of ms but row eid is the same in ms2
OtherRowsKept(ms, ms2, eid) ==
    /\ Len(ms2) = Len(ms)
    /\ \A i \in 1..Len(ms) : i # eid => ms2[i] = ms[i]

\* C1: an upsert of a valid record whose source_url is stored with another
\* data_hash appends exactly one history row holding the stored hash and the
\* stored twelve payload fields as they were before the call, then overwrites
\* the payload fields, data_hash, last_seen_at and last_updated_at with the
\* record and 'now', and returns created = false, changed = true.
C1_ChangedSnapshotsOldPayload ==
    [][ LET rec == lastRecord'
            eid == SelectBySourceUrl(meetings, Get(rec, "source_url"))
        IN  ( /\ calls' = calls + 1
              /\ ValidRecord(rec)
              /\ eid # 0
              /\ meetings[eid].data_hash # rec.data_hash )
            =>
            LET old == meetings[eid]
                new == meetings'[eid]
                h   == meeting_history'[Len(meeting_history')]
            IN  /\ Len(meeting_history') = Len(meeting_history) + 1
                /\ SubSeq(meeting_history', 1, Len(meeting_history)) = meeting_history
                /\ h.meeting_id = eid
                /\ h.data_hash = old.data_hash
                /\ h.data_hash # rec.data_hash
                /\ json_loads(h.payload_json) = PayloadOf(old)
                /\ OtherRowsKept(meetings, meetings', eid)
                /\ PayloadOf(new) = PayloadOf(rec)
                /\ new.data_hash = rec.data_hash
                /\ new.last_seen_at = lastNow'
                /\ new.last_updated_at = lastNow'
                /\ new.created_at = old.created_at
                /\ new.id = old.id
                /\ outcome' = Returned(eid, FALSE, TRUE)
      ]_vars

C1_Witness ==
    /\ outcome = Returned(1, FALSE, TRUE)
    /\ Len(meeting_history) = 1
    /\ meeting_history[1].data_hash # meetings[1].data_hash
    /\ json_loads(meeting_history[1].payload_json).title = "seminar-{U+8BB2}{U+5EA7}"
    /\ meetings[1].title = "t1"

\* C2: an upsert of a record whose data_hash equals the stored one changes
\* last_seen_at and nothing else: no history row, the same last_updated_at,
\* created_at, payload and hash; it returns created = false, changed = false,
\* and the stored last_seen_at text grows strictly.
C2_UnchangedTouchesLastSeenOnly ==
    [][ LET rec == lastRecord'
            eid == SelectBySourceUrl(meetings, Get(rec, "source_url"))
        IN  ( /\ calls' = calls + 1
              /\ required_keys \subseteq DOMAIN rec
              /\ eid # 0
              /\ meetings[eid].data_hash = rec.data_hash )
            =>
            /\ meeting_history' = meeting_history
            /\ meetings' = [meetings EXCEPT ![eid].last_seen_at = lastNow']
            /\ meetings'[eid].last_updated_at = meetings[eid].last_updated_at
            /\ StrLess(IsoFormat(meetings[eid].last_seen_at),
                       IsoFormat(meetings'[eid].last_seen_at))
            /\ outcome' = Returned(eid, FALSE, FALSE)
      ]_vars

\* the same record applied three times: one insert, then two unchanged calls
C2_Witness ==
    /\ calls = 3
    /\ outcome = Returned(1, FALSE, FALSE)
    /\ Len(meetings) = 1
    /\ meeting_history = <<>>
    /\ meetings[1].last_updated_at = meetings[1].created_at
    /\ meetings[1].last_seen_at = lastNow
    /\ meetings[1].last_seen_at > meetings[1].created_at + 2

\* C3: an upsert of a valid record whose source_url is not stored inserts
\* exactly one meeting with the record's payload fields and data_hash and
\* created_at = last_seen_at = last_updated_at = 'now', writes no history
\* row, and reports created.
C3_InsertCreatesOneMeeting ==
    [][ LET rec == lastRecord'
            eid == SelectBySourceUrl(meetings, Get(rec, "source_url"))
        IN  ( /\ calls' = calls + 1
              /\ ValidRecord(rec)
              /\ eid = 0 )
            =>
            LET new == meetings'[Len(meetings')]
            IN  /\ Len(meetings') = Len(meetings) + 1
                /\ SubSeq(meetings', 1, Len(meetings)) = meetings
                /\ PayloadOf(new) = PayloadOf(rec)
                /\ new.data_hash = rec.data_hash
                /\ new.created_at = lastNow'
                /\ new.last_seen_at = lastNow'
                /\ new.last_updated_at = lastNow'
                /\ new.id = Len(meetings')
                /\ meeting_history' = meeting_history
                /\ outcome'.kind = "ok"
                /\ outcome'.created
                /\ outcome'.meeting_id = new.id
      ]_vars

C3_Witness ==
    /\ Len(meetings) = 2
    /\ outcome = Returned(2, TRUE, TRUE)
    /\ meetings[2].created_at = lastNow
    /\ meetings[2].last_updated_at = lastNow
    /\ meeting_history = <<>>

----------------------------------------------------------------------------
(* Claims about the content hash (SpecHash) *)

\* C4: the content hash is a function of exactly the twelve payload fields:
\* two records have equal hashes when their twelve payload fields are equal,
\* whatever their other fields (start_date) are, and different hashes when
\* any payload field differs.
C4_HashOfPayloadFieldsOnly ==
    (hashA # NULL /\ hashB # NULL) =>
        ((PayloadOf(recA) = PayloadOf(recB)) <=> (hashA = hashB))

C4_Witness ==
    /\ hashA # NULL
    /\ hashA = hashB
    /\ recA["start_date"] # recB["start_date"]
    /\ PayloadOf(recA) = PayloadOf(recB)

----------------------------------------------------------------------------
(* Claims about concurrent upsert_meeting calls (SpecConc) *)

\* C5: two upsert_meeting calls for the same source_url that overlap behave
\* as in some serial order: no call raises a conflict (IntegrityError), a
\* committed write leaves the meeting with that call's payload, and every
\* history row appended holds the hash and payload that were stored when its
\* upsert overwrote them.
C5_ConcurrentUpsertsSerialize ==
    [][ /\ \A w \in Workers : wout'[w].kind # "IntegrityError"
        /\ Len(meeting_history') > Len(meeting_history) =>
              LET h == meeting_history'[Len(meeting_history')]
              IN  /\ h.data_hash = meetings[h.meeting_id].data_hash
                  /\ json_loads(h.payload_json) = PayloadOf(meetings[h.meeting_id])
        /\ \A w \in Workers :
              (wout'[w] # wout[w] /\ wout'[w].kind = "ok" /\ wout'[w].changed) =>
                  PayloadOf(meetings'[wout'[w].meeting_id]) = PayloadOf(wrec[w])
      ]_vars

HistoryOf(hs, id) == SelectSeq(hs, LAMBDA h : h.meeting_id = id)

\* every meeting of the tables ms, hs was last overwritten by the write that
\* appended its latest history row, or never if it has none
TailMatches(ms, hs) ==
    /\ \A i \in 1..Len(hs) : hs[i].meeting_id \in 1..Len(ms)
    /\ \A id \in 1..Len(ms) :
          LET own == HistoryOf(hs, id)
          IN  IF own = <<>> THEN ms[id].last_updated_at = ms[id].created_at
              ELSE own[Len(own)].recorded_at = ms[id].last_updated_at

\* C6: each upsert_meeting outcome is committed as one atomic write: what a
\* reader's SELECT returns never holds a history row without the overwrite
\* of its meeting nor an overwrite without its history row, and a call that
\* raises leaves meetings and meeting_history as they were.
C6_AtomicWrite ==
    [][ /\ TailMatches(seen'.meetings, seen'.history)
        /\ \A w \in Workers :
              (wout'[w] # wout[w] /\ wout'[w].kind \notin {"ok", "none"}) =>
                  (meetings' = meetings /\ meeting_history' = meeting_history)
      ]_vars

\* a reader read the committed tables while a transaction that has inserted
\* its history row is open, after an earlier call failed part-way
C6_Witness ==
    /\ writer # 0
    /\ Len(txHistory) > Len(meeting_history)
    /\ seen = [ meetings |-> meetings, history |-> meeting_history ]
    /\ seen.meetings # <<>>
    /\ faults = 1

----------------------------------------------------------------------------
(* Claims about crawl_page (Spec) *)

\* C7: once every monitored page has been crawled without failure since the
\* web and the date last changed, also when two listing pages link the same
\* detail URL, no further step changes a meeting's payload, hash or
\* last_updated_at or appends a history row, and no two meetings share a
\* source_url.
C7_RepeatedCrawlsConverge ==
    [][ /\ cleanPass = DOMAIN monitored_pages =>
              /\ meeting_history' = meeting_history
              /\ Len(meetings') = Len(meetings)
              /\ \A i \in 1..Len(meetings) :
                    /\ PayloadOf(meetings'[i]) = PayloadOf(meetings[i])
                    /\ meetings'[i].data_hash = meetings[i].data_hash
                    /\ meetings'[i].last_updated_at = meetings[i].last_updated_at
        /\ \A i, j \in 1..Len(meetings') :
              i # j => meetings'[i].source_url # meetings'[j].source_url
      ]_vars

\* calendar order of two dates <<y, m, d>>
CalendarLess(a, b) ==
    \/ a[1] < b[1]
    \/ a[1] = b[1] /\ a[2] < b[2]
    \/ a[1] = b[1] /\ a[2] = b[2] /\ a[3] < b[3]

HandedWhats == { "upsert", "upsert_raised", "store_error" }

\* C8: in crawl_page a built record whose start_date exists and lies before
\* the local date of the crawl is never handed to upsert_meeting, and its
\* iteration leaves meetings and meeting_history alone; every built record
\* with no start_date, or one on or after that date, is handed to it.
C8_StaleNeverUpserted ==
    [][ /\ cpc' = "loop" =>
              \A i \in 1..Len(log') :
                  /\ log'[i].what = "stale" =>
                        (log'[i].date # NoDate /\ CalendarLess(log'[i].date, localDate'))
                  /\ log'[i].what \in HandedWhats =>
                        (log'[i].date = NoDate \/ ~CalendarLess(log'[i].date, localDate'))
        /\ (Len(log') = Len(log) + 1 /\ log'[Len(log')].what = "stale") =>
              (meetings' = meetings /\ meeting_history' = meeting_history)
      ]_vars

\* one crawl skipped a stale record and handed on a record dated today
C8_Witness ==
    /\ cpc = "loop"
    /\ \E i, j \in 1..Len(log) :
          /\ log[i].what = "stale"
          /\ log[j].what = "upsert"
          /\ log[j].date = localDate

\* what the claim expects crawl_page to process for page p
ExpectedDetail(p) ==
    LET final == Redirect(monitored_pages[p].url)
        c == extract_candidate_links(ListingAnchors(final, version))
        n == Len(c)
    IN  IF n <= 1 THEN << final >>
        ELSE [ i \in 1..(IF n < 20 THEN n ELSE 20) |-> c[i] ]

\* C9: with 0 or 1 candidate links the final URL of the listing page is the
\* one detail page processed; with 2 or more the pages processed are the
\* first min(n, 20) candidates, in discovery order, each once.
\* (stated of the steps of a running crawl: the listing is the one fetched
\* at its start, the web changes only between crawls)
C9_DetailPagesProcessed ==
    [][ (cpc = "loop" \/ cpc' = "loop") =>
            LET expected == ExpectedDetail(cpage') IN
            /\ Len(log') <= Len(expected)
            /\ \A i \in 1..Len(log') : log'[i].url = expected[i]
            /\ \A i, j \in 1..Len(log') : i # j => log'[i].url # log'[j].url
            /\ cpc' = "done" => Len(log') = Len(expected)
      ]_vars

\* a listing of more than 20 links was crawled to its end
C9_Witness ==
    /\ cpc = "done"
    /\ Len(extract_candidate_links(ListingAnchors(final_url, version))) > 20
    /\ Len(log) = 20

\* C10: an iteration of crawl_page that fails (fetch, record build, or
\* upsert_meeting raising) leaves the tables as the earlier iterations wrote
\* them and goes on with the next detail URL; at the end of the crawl every
\* detail URL has been processed.
C10_FailureDoesNotStopLoop ==
    [][ /\ (Len(log') = Len(log) + 1 /\ log'[Len(log')].what \in ErrorWhats) =>
              /\ meetings' = meetings
              /\ meeting_history' = meeting_history
              /\ cpc' = "loop"
              /\ detail_urls' = detail_urls
              /\ idx' = idx + 1
        /\ cpc' = "done" =>
              /\ Len(log') = Len(detail_urls')
              /\ \A i \in 1..Len(log') : log'[i].url = detail_urls'[i]
      ]_vars

\* a crawl that wrote a meeting, then failed on a page, then wrote another
C10_Witness ==
    /\ cpc = "done"
    /\ \E k, i, j \in 1..Len(log) :
          /\ k < i /\ i < j
          /\ log[k].what = "upsert"
          /\ log[i].what \in ErrorWhats
          /\ log[j].what = "upsert"
    /\ Len(meetings) >= 2

----------------------------------------------------------------------------
(* Claims about run_crawl_all_pages (SpecBatch) *)

\* C11: in a batch crawl no failure on one page, on its listing fetch or on
\* a detail page, stops the batch: when run_crawl_all_pages ends, by return
\* or by exception, crawl_page has been called for every monitored page.
C11_BatchCrawlsEveryPage ==
    bpc \in {"returned", "raised"} => bdone = DOMAIN monitored_pages

----------------------------------------------------------------------------
(* Further claims about crawl_page (Spec) and upsert_meeting (SpecUpsert) *)

\* C12: every call of crawl_page ends, whether it returns or raises and
\* whatever happened to its listing and detail fetches, with the page's
\* last_checked_at set to the time of that end.
C12_EveryPassStampsLastChecked ==
    [][ (cpc' \in {"done", "raised"} /\ (cpc = "loop" \/ crawls' = crawls + 1)) =>
            monitored_pages'[cpage'].last_checked_at = clock
      ]_vars

\* C13: within one crawl_page run, every detail URL that is followed by
\* another fetch had the politeness delay after its processing, whether it
\* was written, discarded as stale, or failed.
C13_DelayBetweenDetailFetches ==
    cpc \in {"loop", "done"} =>
        \A i \in 1..Len(log) : i < Len(log) => log[i].slept

\* C14: upsert_meeting called with a record in which source_page_url,
\* source_url or data_hash is missing or null raises the validation error
\* (ValueError) and leaves meetings and meeting_history as they were.
C14_MissingRequiredFieldRejected ==
    [][ (calls' = calls + 1 /\ ~ValidRecord(lastRecord')) =>
            /\ outcome'.kind = "ValueError"
            /\ meetings' = meetings
            /\ meeting_history' = meeting_history
      ]_vars

\* C15: across crawls no meeting is removed or renumbered (a source_url
\* once stored keeps its row and id, also when a later crawl finds the event
\* stale or no longer finds it), no existing meeting_history row is changed
\* or deleted, and a meeting gets one more history row exactly in a step
\* that changes its hash, none at its creation.
C15_AppendOnlyStore ==
    [][ /\ Len(meetings') >= Len(meetings)
        /\ \A i \in 1..Len(meetings) :
              /\ meetings'[i].id = meetings[i].id
              /\ meetings'[i].source_url = meetings[i].source_url
        /\ Len(meeting_history') >= Len(meeting_history)
        /\ \A i \in 1..Len(meeting_history) : meeting_history'[i] = meeting_history[i]
        /\ \A id \in 1..Len(meetings') :
              Len(HistoryOf(meeting_history', id)) =
                  IF id > Len(meetings) THEN 0
                  ELSE Len(HistoryOf(meeting_history, id))
                       + (IF meetings'[id].data_hash # meetings[id].data_hash THEN 1 ELSE 0)
      ]_vars

\* a crawl ended that found a stored, once updated event stale
C15_Witness ==
    /\ cpc = "done"
    /\ \E i \in 1..Len(log), m \in 1..Len(meetings) :
          /\ log[i].what = "stale"
          /\ meetings[m].source_url = Redirect(log[i].url)
          /\ HistoryOf(meeting_history, m) # <<>>

----------------------------------------------------------------------------
(* Claims about parse_start_date (SpecDate) *)

YearQualified(text) == { i \in 1..Len(text) : text[i].kind = "ymd" }
YearLess(text) == { i \in 1..Len(text) : text[i].kind = "md" }

\* C16: if the text holds a year-qualified date, the first one gives year,
\* month and day; otherwise the first year-less month/day is taken in the
\* current local year; a month/day that is no calendar date gives no date;
\* and a record with no date is still handed to upsert_meeting.
C16_YearQualifiedPreferred ==
    /\ dstage # "text" =>
          dresult =
            IF YearQualified(dtext) # {}
            THEN LET t == dtext[Min(YearQualified(dtext))]
                 IN  IF DateOk(t.y, t.m, t.d) THEN << t.y, t.m, t.d >> ELSE NoDate
            ELSE IF YearLess(dtext) # {}
            THEN LET t == dtext[Min(YearLess(dtext))]
                 IN  IF DateOk(dtoday[1], t.m, t.d) THEN << dtoday[1], t.m, t.d >>
                     ELSE NoDate
            ELSE NoDate
    /\ (dstage = "filtered" /\ dresult = NoDate) => dhanded

----------------------------------------------------------------------------
(* Claims about the hashes crawl_page stores (Spec) *)

\* C17: after any crawls, every stored meeting's data_hash is the content
\* hash of its own twelve stored payload fields, every history row's
\* data_hash is the content hash of the payload its snapshot decodes to, and
\* a history row's hash differs from the hash of the version that replaced
\* it (the meeting's next history row, or the meeting itself).
C17_StoredHashesMatchPayloads ==
    /\ \A m \in 1..Len(meetings) :
          meetings[m].data_hash = ContentHash(PayloadOf(meetings[m]))
    /\ \A i \in 1..Len(meeting_history) :
          meeting_history[i].data_hash =
              ContentHash(json_loads(meeting_history[i].payload_json))
    /\ \A m \in 1..Len(meetings) :
          LET own == HistoryOf(meeting_history, m)
          IN  \A k \in 1..Len(own) :
                own[k].data_hash #
                    (IF k < Len(own) THEN own[k + 1].data_hash ELSE meetings[m].data_hash)

\* a history row whose snapshot text holds an escaped non-ASCII value
C17_Witness ==
    \E i \in 1..Len(meeting_history) :
        LET doc == meeting_history[i].payload_json
        IN  doc # json_dumps(json_loads(doc), MEETING_FIELDS, FALSE)

====
